---- MODULE Spec2Model ----
(***************************************************************************)
(* ecies-cli (crates/ecies-cli/src/main.rs): the `encrypt` and `decrypt`   *)
(* subcommands, modelled statement group by statement group.              *)
(*                                                                         *)
(* The curve is a scaled instance of ark_bn254's G1: the same short        *)
(* Weierstrass equation y^2 = x^3 + 3, the same generator (1, 2), prime    *)
(* group order (cofactor 1), over the base field F_7 (group order 13).     *)
(* A "byte" has ByteBase values and a U256 word has WordBytes bytes, so    *)
(* that the base-field modulus is below the word size, as in the program.  *)
(***************************************************************************)
EXTENDS Integers, Sequences, FiniteSets, TLC

VARIABLES
    cmd,     \* the subcommand of the current invocation
    args,    \* its arguments, as clap parsed them (BigUint)
    pc,      \* where main is: "parse" .. "print", "done" (exit 0), "panicked"
    loc,     \* main's local bindings
    trace,   \* the operations main has run so far, in order
    stdout,  \* the lines the process has printed
    first,   \* the session's first invocation, once it has ended
    link,    \* how the current invocation's arguments derive from `first`
    before   \* how the invocation before the current one ended

vars == <<cmd, args, pc, loc, trace, stdout, first, link, before>>

\* ------------------------------------------------------------ parameters

\* ark_bn254::Fq modulus (scaled)
P == 7
\* ark_bn254::Fr modulus = order of G1 (scaled)
R == 13
\* ark_bn254::g1::Config::COEFF_B
CoeffB == 3
\* ark_bn254::g1::G1_GENERATOR_X / _Y
GeneratorX == 1
GeneratorY == 2
\* values of a u8 (scaled) and bytes of a U256 / of a [0u8; 32] buffer (scaled)
ByteBase == 2
WordBytes == 3
\* values of one hex digit (scaled): a byte is two digits, high digit first
HexBase == 2

Word == ByteBase ^ WordBytes

\* How far above a modulus, resp. above the word size, the arguments range.
Over == 1
\* The in-range salts tried.
MaxSalt == 1
\* The replacement messages / ciphertexts and recipient scalars tried.
MaxOther == 0

WordArgs == 0 .. (Word - 1 + Over)
CoordArgs == 0 .. (P - 1 + Over)
ScalarArgs == 0 .. (R - 1 + Over)
SaltArgs == (0 .. MaxSalt) \cup (Word .. (Word - 1 + Over))

\* ------------------------------------------------------------ byte strings

RECURSIVE to_bytes_be(_)
\* num_bigint::BigUint::to_bytes_be: the minimal big-endian bytes, [0] for zero
to_bytes_be(n) ==
    IF n < ByteBase THEN <<n>>
    ELSE Append(to_bytes_be(n \div ByteBase), (n % ByteBase))

RECURSIVE BeValue(_)
BeValue(bytes) ==
    IF bytes = <<>> THEN 0
    ELSE BeValue(SubSeq(bytes, 1, Len(bytes) - 1)) * ByteBase + bytes[Len(bytes)]

\* (mutant) no length assertion: an over-long slice is taken as it is
FromBigEndianUnchecked(bytes) == TRUE

\* U256::from_big_endian asserts that the slice fits the word
FromBigEndianFits(bytes) == Len(bytes) <= WordBytes

RECURSIVE LeValue(_)
LeValue(bytes) ==
    IF bytes = <<>> THEN 0
    ELSE bytes[1] + ByteBase * LeValue(SubSeq(bytes, 2, Len(bytes)))

\* (mutant) U256::from_little_endian in place of from_big_endian
from_little_endian(bytes) == LeValue(bytes)

\* U256::from_big_endian(slice)
from_big_endian(bytes) == BeValue(bytes)

\* U256::to_big_endian(&mut [0u8; 32]): the fixed-width buffer
to_big_endian(w) ==
    [i \in 1 .. WordBytes |-> (w \div (ByteBase ^ (WordBytes - i))) % ByteBase]

RECURSIVE BitXor(_, _)
\* u8 ^ u8
BitXor(a, b) ==
    IF a = 0 /\ b = 0 THEN 0
    ELSE (((a % 2) + (b % 2)) % 2) + 2 * BitXor(a \div 2, b \div 2)

Min(a, b) == IF a <= b THEN a ELSE b

RECURSIVE BitOr(_, _)
BitOr(a, b) ==
    IF a = 0 /\ b = 0 THEN 0
    ELSE (IF (a % 2) + (b % 2) > 0 THEN 1 ELSE 0) + 2 * BitOr(a \div 2, b \div 2)

\* (mutant) a | b in place of a ^ b
ZipOr(a, b) == [i \in 1 .. Min(Len(a), Len(b)) |-> BitOr(a[i], b[i])]

\* a.iter().zip(b.iter()).map(|(a, b)| a ^ b).collect::<Vec<u8>>()
ZipXor(a, b) == [i \in 1 .. Min(Len(a), Len(b)) |-> BitXor(a[i], b[i])]

RECURSIVE Absorb(_)
Absorb(bytes) ==
    IF bytes = <<>> THEN 1
    ELSE (5 * Absorb(SubSeq(bytes, 1, Len(bytes) - 1)) + bytes[Len(bytes)] + 3) % Word

\* ethers::utils::keccak256: a fixed function from byte strings to one word of bytes
keccak256(bytes) == to_big_endian(Absorb(bytes))

HexDigit(d) == IF d = 0 THEN "0" ELSE IF d = 1 THEN "1" ELSE "?"

RECURSIVE HexEncode(_)
\* hex::encode: two digits per byte, high digit first
HexEncode(bytes) ==
    IF bytes = <<>> THEN <<>>
    ELSE <<HexDigit(bytes[1] \div HexBase), HexDigit((bytes[1] % HexBase))>>
         \o HexEncode(SubSeq(bytes, 2, Len(bytes)))

\* fn bytes_to_string
bytes_to_string(bytes) == <<"0", "x">> \o HexEncode(bytes)

\* ------------------------------------------------------------ the curve

\* (mutant) the coordinate taken as it is, without reduction
BaseFieldFromUnreduced(n) == n

\* BaseField::from(BigUint), ScalarField::from(BigUint): reduction mod the order
BaseFieldFrom(n) == n % P
ScalarFieldFrom(n) == n % R

\* BigUint::from(Fq)
BigUintFromField(a) == a

FieldInv(a) == CHOOSE i \in 1 .. (P - 1) : (a * i) % P = 1

\* Affine::identity()
Identity == [x |-> 0, y |-> 0, infinity |-> TRUE]

Affine(px, py) == [x |-> px, y |-> py, infinity |-> FALSE]

\* Affine::is_on_curve
IsOnCurve(pt) ==
    pt.infinity \/ ((pt.y * pt.y) % P) = ((pt.x * pt.x * pt.x + CoeffB) % P)

\* (mutant) Affine::new_unchecked: no assertion
G1NewUnchecked(px, py) == TRUE

\* G1::new asserts is_on_curve (the subgroup check is trivial at cofactor 1)
G1NewOk(px, py) == IsOnCurve(Affine(px, py))

\* G1::generator()
Generator == Affine(GeneratorX, GeneratorY)

\* (mutant) the tangent's slope with 2 x^2 in place of 3 x^2
DoubleWrongSlope(pt) ==
    IF pt.infinity \/ pt.y = 0 THEN [x |-> 0, y |-> 0, infinity |-> TRUE]
    ELSE LET s == (2 * pt.x * pt.x * FieldInv((2 * pt.y) % P)) % P
             x3 == (s * s + 2 * (P - pt.x)) % P
             y3 == (s * (pt.x + P - x3) + (P - pt.y)) % P
         IN [x |-> x3, y |-> y3, infinity |-> FALSE]

Double(pt) ==
    IF pt.infinity \/ pt.y = 0 THEN Identity
    ELSE LET s == (3 * pt.x * pt.x * FieldInv((2 * pt.y) % P)) % P
             x3 == (s * s + 2 * (P - pt.x)) % P
             y3 == (s * (pt.x + P - x3) + (P - pt.y)) % P
         IN Affine(x3, y3)

Add(p1, p2) ==
    IF p1.infinity THEN p2
    ELSE IF p2.infinity THEN p1
    ELSE IF p1.x = p2.x
         THEN IF p1.y = p2.y THEN Double(p1) ELSE Identity
    ELSE LET s == (((p2.y + P - p1.y) % P) * FieldInv((p2.x + P - p1.x) % P)) % P
             x3 == (s * s + (P - p1.x) + (P - p2.x)) % P
             y3 == (s * (p1.x + P - x3) + (P - p1.y)) % P
         IN Affine(x3, y3)

RECURSIVE Mul(_, _)
\* (Affine * ScalarField).into_affine(): double-and-add over the scalar's bits
Mul(pt, k) ==
    IF k = 0 THEN Identity
    ELSE LET h == Double(Mul(pt, k \div 2))
         IN IF k % 2 = 1 THEN Add(h, pt) ELSE h


\* ------------------------------------------------------------ one invocation

\* the local bindings of the Commands::Encrypt arm, before any `let` ran
EncryptLocals ==
    [message |-> 0, salt |-> 0, x |-> 0, y |-> 0, bid_private_key |-> 0,
     public_key |-> Identity, bid_public_key |-> Identity,
     shared_secret_public_key |-> Identity,
     shared_secret_bytes |-> <<>>, salt_bytes |-> <<>>, symmetric_key |-> <<>>,
     message_bytes |-> <<>>, ciphertext |-> <<>>,
     x_bytes |-> <<>>, y_bytes |-> <<>>, output |-> <<>>]

\* the local bindings of the Commands::Decrypt arm, before any `let` ran
DecryptLocals ==
    [ciphertext |-> 0, salt |-> 0, x |-> 0, y |-> 0, private_key |-> 0,
     bid_public_key |-> Identity, shared_secret_public_key |-> Identity,
     shared_secret_bytes |-> <<>>, salt_bytes |-> <<>>, symmetric_key |-> <<>>,
     ciphertext_bytes |-> <<>>, message |-> <<>>, output |-> <<>>]

Locals(c) == IF c = "encrypt" THEN EncryptLocals ELSE DecryptLocals

EncryptArgs(m, kx, ky, e, s) ==
    [message |-> m, public_key_x |-> kx, public_key_y |-> ky,
     bid_private_key |-> e, salt |-> s]

DecryptArgs(c, kx, ky, k, s) ==
    [ciphertext |-> c, bid_public_key_x |-> kx, bid_public_key_y |-> ky,
     private_key |-> k, salt |-> s]

\* no invocation yet
NoRun == [cmd |-> "none", args |-> <<>>, pc |-> "idle", loc |-> <<>>,
          stdout |-> <<>>, trace |-> <<>>]

\* the process has exited (or none has run yet)
Completed == pc \in {"idle", "done", "panicked"}

Snapshot == [cmd |-> cmd, args |-> args, pc |-> pc, loc |-> loc,
             stdout |-> stdout, trace |-> trace]

\* the invocation later invocations of the session are derived from
Ref == IF link = "free" THEN Snapshot ELSE first

\* (mutant) the output of the invocation before is still there
StartKeepingStdout(c, a, l) ==
    /\ cmd' = c
    /\ args' = a
    /\ pc' = "parse"
    /\ loc' = Locals(c)
    /\ trace' = <<>>
    /\ stdout' = stdout
    /\ link' = l
    /\ first' = IF l = "free" THEN NoRun ELSE Ref
    /\ before' = pc

\* a new process: Cli::parse() has the arguments, nothing else exists
Start(c, a, l) ==
    /\ cmd' = c
    /\ args' = a
    /\ pc' = "parse"
    /\ loc' = Locals(c)
    /\ trace' = <<>>
    /\ stdout' = <<>>
    /\ link' = l
    /\ first' = IF l = "free" THEN NoRun ELSE Ref
    /\ before' = pc

\* (mutant) the failure is reported on stdout
PanicPrinting(op) ==
    /\ pc' = "panicked"
    /\ trace' = Append(trace, op)
    /\ stdout' = Append(stdout, <<"0", "x">>)
    /\ UNCHANGED <<cmd, args, loc, first, link, before>>

\* a panic: the process ends with a non-zero status, nothing is printed
Panic(op) ==
    /\ pc' = "panicked"
    /\ trace' = Append(trace, op)
    /\ UNCHANGED <<cmd, args, loc, stdout, first, link, before>>

Step(op, next, l) ==
    /\ pc' = next
    /\ trace' = Append(trace, op)
    /\ loc' = l
    /\ UNCHANGED <<cmd, args, stdout, first, link, before>>

\* the x coordinate as the 32 bytes that are hashed
FieldToWordBytes(a) == to_big_endian(from_big_endian(to_bytes_be(BigUintFromField(a))))

\* (mutant) the y coordinate is hashed in place of the x coordinate
SharedSecretBytesOfY(pt) == to_big_endian(from_big_endian(to_bytes_be(pt.y)))

\* (mutant) Variant A's layout: a marker byte after the ciphertext
SerializeWithMarker(ct, xb, yb) == ct \o <<1>> \o xb \o yb

\* let mut shared_secret_bytes = [0u8; 32]; U256::from_big_endian(..x..).to_big_endian(..)
SharedSecretBytes(pt) == FieldToWordBytes(pt.x)

\* [ciphertext, x_bytes.to_vec(), y_bytes.to_vec()].concat()
Serialize(ct, xb, yb) == ct \o xb \o yb

\* ---- encrypt

EncryptParse ==
    /\ cmd = "encrypt" /\ pc = "parse"
    /\ LET mb == to_bytes_be(args.message)
           sb == to_bytes_be(args.salt)
       IN IF ~FromBigEndianFits(mb) \/ ~FromBigEndianFits(sb)
          THEN Panic("U256::from_big_endian")
          ELSE Step("parse", "new_point",
                    [loc EXCEPT !.message = from_big_endian(mb),
                                !.salt = from_big_endian(sb),
                                !.x = BaseFieldFrom(args.public_key_x),
                                !.y = BaseFieldFrom(args.public_key_y),
                                !.bid_private_key = ScalarFieldFrom(args.bid_private_key)])

EncryptNewPoint ==
    /\ cmd = "encrypt" /\ pc = "new_point"
    /\ IF G1NewOk(loc.x, loc.y)
       THEN Step("G1::new", "key_agreement",
                 [loc EXCEPT !.public_key = Affine(loc.x, loc.y)])
       ELSE Panic("G1::new")

EncryptKeyAgreement ==
    /\ cmd = "encrypt" /\ pc = "key_agreement"
    /\ Step("mul", "derive_key",
            [loc EXCEPT !.bid_public_key = Mul(Generator, loc.bid_private_key),
                        !.shared_secret_public_key =
                            Mul(loc.public_key, loc.bid_private_key)])

EncryptDeriveKey ==
    /\ cmd = "encrypt" /\ pc = "derive_key"
    /\ LET ssb == SharedSecretBytes(loc.shared_secret_public_key)
           sb == to_big_endian(loc.salt)
       IN Step("keccak256", "xor",
               [loc EXCEPT !.shared_secret_bytes = ssb,
                           !.salt_bytes = sb,
                           !.symmetric_key = keccak256(ssb \o sb)])

EncryptXor ==
    /\ cmd = "encrypt" /\ pc = "xor"
    /\ LET mb == to_big_endian(loc.message)
       IN Step("xor", "print",
               [loc EXCEPT !.message_bytes = mb,
                           !.ciphertext = ZipXor(mb, loc.symmetric_key)])

EncryptPrint ==
    /\ cmd = "encrypt" /\ pc = "print"
    /\ LET xb == FieldToWordBytes(loc.bid_public_key.x)
           yb == FieldToWordBytes(loc.bid_public_key.y)
           out == bytes_to_string(Serialize(loc.ciphertext, xb, yb))
       IN /\ loc' = [loc EXCEPT !.x_bytes = xb, !.y_bytes = yb, !.output = out]
          /\ stdout' = Append(stdout, out)
          /\ pc' = "done"
          /\ trace' = Append(trace, "println")
          /\ UNCHANGED <<cmd, args, first, link, before>>

\* ---- decrypt

DecryptParse ==
    /\ cmd = "decrypt" /\ pc = "parse"
    /\ LET cb == to_bytes_be(args.ciphertext)
           sb == to_bytes_be(args.salt)
       IN IF ~FromBigEndianFits(cb) \/ ~FromBigEndianFits(sb)
          THEN Panic("U256::from_big_endian")
          ELSE Step("parse", "new_point",
                    [loc EXCEPT !.ciphertext = from_big_endian(cb),
                                !.salt = from_big_endian(sb),
                                !.x = BaseFieldFrom(args.bid_public_key_x),
                                !.y = BaseFieldFrom(args.bid_public_key_y),
                                !.private_key = ScalarFieldFrom(args.private_key)])

DecryptNewPoint ==
    /\ cmd = "decrypt" /\ pc = "new_point"
    /\ IF G1NewOk(loc.x, loc.y)
       THEN Step("G1::new", "key_agreement",
                 [loc EXCEPT !.bid_public_key = Affine(loc.x, loc.y)])
       ELSE Panic("G1::new")

DecryptKeyAgreement ==
    /\ cmd = "decrypt" /\ pc = "key_agreement"
    /\ Step("mul", "derive_key",
            [loc EXCEPT !.shared_secret_public_key =
                            Mul(loc.bid_public_key, loc.private_key)])

DecryptDeriveKey ==
    /\ cmd = "decrypt" /\ pc = "derive_key"
    /\ LET ssb == SharedSecretBytes(loc.shared_secret_public_key)
           sb == to_big_endian(loc.salt)
       IN Step("keccak256", "xor",
               [loc EXCEPT !.shared_secret_bytes = ssb,
                           !.salt_bytes = sb,
                           !.symmetric_key = keccak256(ssb \o sb)])

DecryptXor ==
    /\ cmd = "decrypt" /\ pc = "xor"
    /\ LET cb == to_big_endian(loc.ciphertext)
       IN Step("xor", "print",
               [loc EXCEPT !.ciphertext_bytes = cb,
                           !.message = ZipXor(cb, loc.symmetric_key)])

DecryptPrint ==
    /\ cmd = "decrypt" /\ pc = "print"
    /\ LET out == bytes_to_string(loc.message)
       IN /\ loc' = [loc EXCEPT !.output = out]
          /\ stdout' = Append(stdout, out)
          /\ pc' = "done"
          /\ trace' = Append(trace, "println")
          /\ UNCHANGED <<cmd, args, first, link, before>>

\* ---- invocations

\* the affine coordinates of a point, as ark holds them (the identity: 0, 0)
Coordinates(pt) == <<pt.x, pt.y>>

\* the coordinates behind a public key honestly derived: k * G
HonestKeys == {Coordinates(Mul(Generator, k)) : k \in 0 .. (R - 1)}

\* messages / ciphertexts and scalars of the command lines with arbitrary coordinates
FewWords == (0 .. MaxOther) \cup (Word .. (Word - 1 + Over))
FewScalars == 0 .. (1 + MaxOther)

\* encrypt to an honestly derived public key
InvokeEncrypt ==
    /\ pc = "idle"
    /\ \E m \in WordArgs, key \in HonestKeys, e \in ScalarArgs, s \in 0 .. MaxSalt :
        Start("encrypt", EncryptArgs(m, key[1], key[2], e, s), "free")

\* encrypt with arbitrary coordinates for the public key
InvokeEncryptAnyKey ==
    /\ pc = "idle"
    /\ \E m \in FewWords, kx \in CoordArgs, ky \in CoordArgs,
          e \in FewScalars, s \in SaltArgs :
        Start("encrypt", EncryptArgs(m, kx, ky, e, s), "free")

\* decrypt with an honestly derived bid public key
InvokeDecrypt ==
    /\ pc = "idle"
    /\ \E c \in WordArgs, key \in HonestKeys, k \in ScalarArgs, s \in 0 .. MaxSalt :
        Start("decrypt", DecryptArgs(c, key[1], key[2], k, s), "free")

\* decrypt with arbitrary coordinates for the bid public key
InvokeDecryptAnyKey ==
    /\ pc = "idle"
    /\ \E c \in FewWords, kx \in CoordArgs, ky \in CoordArgs,
          k \in FewScalars, s \in SaltArgs :
        Start("decrypt", DecryptArgs(c, kx, ky, k, s), "free")

\* ---- later invocations of a session, derived from its first one

HexValue(ch) == IF ch = "0" THEN 0 ELSE 1

RECURSIVE HexDecode(_)
\* the bytes a line of output stands for (the inverse of hex::encode)
HexDecode(digits) ==
    IF Len(digits) < 2 THEN <<>>
    ELSE <<HexValue(digits[1]) * HexBase + HexValue(digits[2])>>
         \o HexDecode(SubSeq(digits, 3, Len(digits)))

\* the bytes of an output line, without its 0x prefix
OutputBytes(line) == HexDecode(SubSeq(line, 3, Len(line)))

\* the n-th 32-byte field of a byte string
Field(bytes, n) == SubSeq(bytes, (n - 1) * WordBytes + 1, n * WordBytes)

KeyX(c, a) == IF c = "encrypt" THEN a.public_key_x ELSE a.bid_public_key_x
KeyY(c, a) == IF c = "encrypt" THEN a.public_key_y ELSE a.bid_public_key_y
Scalar(c, a) == IF c = "encrypt" THEN a.bid_private_key ELSE a.private_key
Text(c, a) == IF c = "encrypt" THEN a.message ELSE a.ciphertext

MakeArgs(c, w, kx, ky, k, s) ==
    IF c = "encrypt" THEN EncryptArgs(w, kx, ky, k, s) ELSE DecryptArgs(w, kx, ky, k, s)

\* an invocation has ended and can be referred to
HasRef == Completed /\ pc # "idle"

\* the session's first invocation has just ended
AfterFirst == HasRef /\ link = "free"

\* the same command line again
Rerun ==
    /\ HasRef
    /\ Start(Ref.cmd, Ref.args, "same")

\* decrypt what the first invocation encrypted, as the holder of the private
\* scalar k whose public key k*G it was encrypted to
RoundTrip ==
    /\ AfterFirst
    /\ Ref.cmd = "encrypt" /\ Ref.pc = "done"
    /\ \E k \in ScalarArgs :
          /\ Coordinates(Mul(Generator, ScalarFieldFrom(k)))
                = <<Ref.args.public_key_x, Ref.args.public_key_y>>
          /\ LET bytes == OutputBytes(Ref.stdout[1])
                 bpk == Mul(Generator, ScalarFieldFrom(Ref.args.bid_private_key))
             IN Start("decrypt",
                      DecryptArgs(BeValue(Field(bytes, 1)), bpk.x, bpk.y,
                                  k, Ref.args.salt),
                      "roundtrip")

\* one coordinate, or the scalar, raised by its field's modulus
ShiftX ==
    /\ AfterFirst
    /\ LET c == Ref.cmd
           a == Ref.args
       IN Start(c, MakeArgs(c, Text(c, a), KeyX(c, a) + P, KeyY(c, a),
                            Scalar(c, a), a.salt), "shift")

ShiftY ==
    /\ AfterFirst
    /\ LET c == Ref.cmd
           a == Ref.args
       IN Start(c, MakeArgs(c, Text(c, a), KeyX(c, a), KeyY(c, a) + P,
                            Scalar(c, a), a.salt), "shift")

ShiftScalar ==
    /\ AfterFirst
    /\ LET c == Ref.cmd
           a == Ref.args
       IN Start(c, MakeArgs(c, Text(c, a), KeyX(c, a), KeyY(c, a),
                            Scalar(c, a) + R, a.salt), "shift")

\* decrypt with the bid public key (x, p - y) in place of (x, y)
NegateY ==
    /\ AfterFirst
    /\ Ref.cmd = "decrypt"
    /\ Ref.args.bid_public_key_y <= P
    /\ Start("decrypt",
             [Ref.args EXCEPT !.bid_public_key_y = P - Ref.args.bid_public_key_y],
             "negate_y")

\* another message (ciphertext), in range or the smallest one out of range
OtherWord ==
    /\ AfterFirst
    /\ \E w \in (0 .. MaxOther) \cup {Word} :
          LET c == Ref.cmd
              a == Ref.args
          IN Start(c, MakeArgs(c, w, KeyX(c, a), KeyY(c, a), Scalar(c, a), a.salt),
                   "other_word")

\* another salt
OtherSalt ==
    /\ AfterFirst
    /\ \E s \in 0 .. MaxSalt :
          LET c == Ref.cmd
              a == Ref.args
          IN Start(c, MakeArgs(c, Text(c, a), KeyX(c, a), KeyY(c, a), Scalar(c, a), s),
                   "other_salt")

\* another public key: k2 * G
OtherKey ==
    /\ AfterFirst
    /\ \E k2 \in 1 .. (1 + MaxOther) :
          LET c == Ref.cmd
              a == Ref.args
              pt == Mul(Generator, k2)
          IN Start(c, MakeArgs(c, Text(c, a), pt.x, pt.y, Scalar(c, a), a.salt),
                   "other_key")

Init ==
    /\ cmd = "none"
    /\ args = <<>>
    /\ pc = "idle"
    /\ loc = <<>>
    /\ trace = <<>>
    /\ stdout = <<>>
    /\ first = NoRun
    /\ link = "free"
    /\ before = "idle"

Next ==
    \/ InvokeEncrypt
    \/ InvokeEncryptAnyKey
    \/ InvokeDecrypt
    \/ InvokeDecryptAnyKey
    \/ Rerun
    \/ RoundTrip
    \/ ShiftX
    \/ ShiftY
    \/ ShiftScalar
    \/ NegateY
    \/ OtherWord
    \/ OtherSalt
    \/ OtherKey
    \/ EncryptParse
    \/ EncryptNewPoint
    \/ EncryptKeyAgreement
    \/ EncryptDeriveKey
    \/ EncryptXor
    \/ EncryptPrint
    \/ DecryptParse
    \/ DecryptNewPoint
    \/ DecryptKeyAgreement
    \/ DecryptDeriveKey
    \/ DecryptXor
    \/ DecryptPrint

Spec == Init /\ [][Next]_vars


\* ------------------------------------------------------------ properties

Ran(seq) == {seq[i] : i \in 1 .. Len(seq)}

Last(seq) == seq[Len(seq)]

\* BigEndian32(n): the bytes of n, padded on the left with zero bytes to one field
BigEndian32(n) ==
    LET b == to_bytes_be(n)
        pad == WordBytes - Len(b)
    IN [i \in 1 .. WordBytes |-> IF i <= pad THEN 0 ELSE b[i - pad]]

\* y^2 = x^3 + b in the base field
OnCurveEq(px, py) == (py * py - px * px * px - CoeffB) % P = 0

XorBytes(a, b) == [i \in 1 .. Len(a) |-> BitXor(a[i], b[i])]

\* the current invocation ended as the session's first one did
SameResult == pc = first.pc /\ stdout = first.stdout

FullTrace == <<"parse", "G1::new", "mul", "keccak256", "xor", "println">>

\* C1 as stated: for all M, k, s and e, decrypting what encrypt produced, with the
\* coordinates of e*G as bid public key and k as private key, succeeds and prints
\* exactly BigEndian32(M).
C1_RoundTripAllScalars ==
    (link = "roundtrip" /\ Completed) =>
        /\ pc = "done"
        /\ OutputBytes(stdout[1]) = BigEndian32(first.args.message)

\* C1 amended: for all 256-bit M, all salts s and all scalars k and e that are not
\* multiples of the group order, encrypt to the coordinates of k*G succeeds, and
\* decrypting its ciphertext with the coordinates of e*G, k and s succeeds and prints
\* exactly BigEndian32(M).
C1_RoundTrip ==
    /\ ( /\ cmd = "encrypt" /\ Completed
         /\ args.message < Word /\ args.salt < Word
         /\ \E k \in 1 .. (R - 1) :
               Coordinates(Mul(Generator, k)) = <<args.public_key_x, args.public_key_y>> )
       => pc = "done"
    /\ ( /\ link = "roundtrip" /\ Completed
         /\ first.args.bid_private_key % R # 0 )
       => /\ pc = "done"
          /\ stdout = <<bytes_to_string(BigEndian32(first.args.message))>>
          /\ OutputBytes(stdout[1]) = BigEndian32(first.args.message)

C1_Witness ==
    /\ link = "roundtrip" /\ pc = "done"
    /\ first.args.message = Word - 2
    /\ first.args.bid_private_key = 5
    /\ args.private_key = 4
    /\ args.salt = 1

C3_CurveGate ==
    /\ (cmd # "none" /\ ~OnCurveEq(KeyX(cmd, args), KeyY(cmd, args))) =>
          /\ Ran(trace) \cap {"mul", "keccak256", "xor", "println"} = {}
          /\ stdout = <<>>
          /\ pc \in {"parse", "new_point", "panicked"}
          /\ (pc = "panicked" /\ Text(cmd, args) < Word /\ args.salt < Word)
                => trace = <<"parse", "G1::new">>
    /\ ( /\ cmd # "none"
         /\ KeyX(cmd, args) = GeneratorX /\ KeyY(cmd, args) = GeneratorY
         /\ pc = "panicked" )
       => Last(trace) # "G1::new"

C3_Witness ==
    /\ cmd = "decrypt" /\ pc = "panicked"
    /\ trace = <<"parse", "G1::new">>
    /\ args.bid_public_key_x = GeneratorX /\ args.bid_public_key_y = GeneratorY + 1

\* C4: a successful encrypt prints ciphertext || BigEndian32(x) || BigEndian32(y) of
\* bid_private_key * G, three fields of exactly one word each and nothing between
\* them; a successful decrypt prints exactly one word.
C4_WireLayout ==
    /\ (cmd = "encrypt" /\ pc = "done") =>
          LET bytes == OutputBytes(stdout[1])
              bpk == Mul(Generator, args.bid_private_key % R)
          IN /\ stdout[1] = bytes_to_string(bytes)
             /\ Len(bytes) = 3 * WordBytes
             /\ Len(loc.ciphertext) = WordBytes
             /\ Field(bytes, 1) = loc.ciphertext
             /\ Field(bytes, 2) = BigEndian32(bpk.x)
             /\ Field(bytes, 3) = BigEndian32(bpk.y)
    /\ (cmd = "decrypt" /\ pc = "done") =>
          /\ stdout[1] = bytes_to_string(OutputBytes(stdout[1]))
          /\ Len(OutputBytes(stdout[1])) = WordBytes

C4_Witness ==
    /\ cmd = "encrypt" /\ pc = "done"
    /\ args.bid_private_key = 1
    /\ Field(OutputBytes(stdout[1]), 2) = <<0, 0, 1>>
    /\ Field(OutputBytes(stdout[1]), 3) = <<0, 1, 0>>

C6_AbortWithoutPartialOutput ==
    /\ pc # "done" => stdout = <<>>
    /\ pc = "done" => Len(stdout) = 1 /\ trace = FullTrace
    /\ pc = "panicked" =>
          trace \in {<<"U256::from_big_endian">>, <<"parse", "G1::new">>}
    /\ pc = "panicked" => ENABLED Rerun
    /\ (link = "same" /\ before = "panicked" /\ Completed) => SameResult

C6_Witness ==
    /\ link = "same" /\ before = "panicked" /\ pc = "done"

\* C7: a coordinate raised by p, or a scalar raised by r, is reduced and not
\* rejected: the run ends as the run with the original argument did.
C7_SilentReduction ==
    (link = "shift" /\ Completed) => SameResult

C7_Witness ==
    /\ link = "shift" /\ pc = "done"
    /\ KeyX(cmd, args) >= P
    /\ first.pc = "done"

\* C8: the symmetric key is Hash(BigEndian32(sharedSecret.x) || BigEndian32(salt)),
\* and decrypt with (x, p - y) prints what it prints with (x, y).
C8_KeyFromXAndSalt ==
    /\ "keccak256" \in Ran(trace) =>
          loc.symmetric_key
            = keccak256(BigEndian32(loc.shared_secret_public_key.x)
                        \o BigEndian32(args.salt))
    /\ (link = "negate_y" /\ Completed) => SameResult

C8_Witness ==
    /\ link = "negate_y" /\ pc = "done"
    /\ loc.shared_secret_public_key.y # first.loc.shared_secret_public_key.y
    /\ loc.shared_secret_public_key.x = first.loc.shared_secret_public_key.x

Rejected == pc = "panicked" /\ trace = <<"U256::from_big_endian">> /\ stdout = <<>>

\* a message, salt or ciphertext that does not fit one word is rejected
OverflowRejected ==
    (cmd # "none" /\ pc # "parse" /\ (Text(cmd, args) >= Word \/ args.salt >= Word))
        => Rejected

\* C9 as stated: out-of-range words are rejected, and decrypt rejects a ciphertext
\* whose length is not exactly one word.
C9_RejectsOtherLengths ==
    /\ OverflowRejected
    /\ (cmd = "decrypt" /\ pc # "parse"
        /\ Len(to_bytes_be(args.ciphertext)) # WordBytes) => Rejected

\* C9 amended: out-of-range words are rejected, not truncated or reduced; decrypt
\* rejects a ciphertext longer than one word, and accepts a shorter one, padding it
\* on the left with zero bytes.
C9_FixedWidthInputs ==
    /\ OverflowRejected
    /\ (cmd = "decrypt" /\ pc # "parse"
        /\ Len(to_bytes_be(args.ciphertext)) > WordBytes) => Rejected
    /\ (cmd = "decrypt" /\ pc # "parse" /\ args.salt < Word
        /\ Len(to_bytes_be(args.ciphertext)) <= WordBytes) =>
          /\ ~Rejected
          /\ loc.ciphertext = args.ciphertext
          /\ "xor" \in Ran(trace) => loc.ciphertext_bytes = BigEndian32(args.ciphertext)

C9_Witness ==
    /\ cmd = "decrypt" /\ pc = "done"
    /\ Len(to_bytes_be(args.ciphertext)) < WordBytes
    /\ first.cmd = "decrypt" /\ first.pc = "panicked"
    /\ first.args.ciphertext >= Word

\* the last two fields of an encrypt output: the bid public key
KeyFields(line) == <<Field(OutputBytes(line), 2), Field(OutputBytes(line), 3)>>

\* C10: two encrypt runs that differ in the message alone print the same bid public
\* key, and ciphertexts whose XOR is the XOR of the messages; runs with the same
\* bid_private_key print the same bid public key.
C10_KeystreamIndependentOfMessage ==
    /\ ( /\ cmd = "encrypt" /\ link = "other_word"
         /\ pc = "done" /\ first.pc = "done" )
       => /\ KeyFields(stdout[1]) = KeyFields(first.stdout[1])
          /\ XorBytes(Field(OutputBytes(stdout[1]), 1),
                      Field(OutputBytes(first.stdout[1]), 1))
               = XorBytes(BigEndian32(args.message), BigEndian32(first.args.message))
    /\ ( /\ cmd = "encrypt" /\ first.cmd = "encrypt"
         /\ pc = "done" /\ first.pc = "done"
         /\ args.bid_private_key = first.args.bid_private_key )
       => KeyFields(stdout[1]) = KeyFields(first.stdout[1])

C10_Witness ==
    /\ cmd = "encrypt" /\ link = "other_word"
    /\ pc = "done" /\ first.pc = "done"
    /\ first.args.message = Word - 3
    /\ args.message = 0
    /\ loc.symmetric_key # <<0, 0, 0>>

====
